---- MODULE Spec2Model ----
(***************************************************************************)
(* Model of app/services/aadhaar.py: verify_aadhaar and its helpers        *)
(* extract_qr_code and extract_text_from_file.                             *)
(*                                                                         *)
(* Python strings are modelled as sequences of one-character strings, so   *)
(* that the regular expressions, the masking slice and strptime are        *)
(* computed on characters as the code computes them.  None is a value that *)
(* is no character sequence.                                               *)
(***************************************************************************)
EXTENDS Integers, Sequences, FiniteSets, TLC

\* ------------------------------------------------------------------------
\* Bounds of the model
\* ------------------------------------------------------------------------
\* largest page count a rasterized PDF has
MaxPages == 2
\* largest number of lines in a recognized text (pipeline specification)
MaxLines == 2
\* largest number of lines in a recognized text (name extraction alone)
MaxNameLines == 3

\* ------------------------------------------------------------------------
\* Python values
\* ------------------------------------------------------------------------
None == <<"None">>

\* truth value of an optional string: None and "" are falsy
Truthy(v) == v # None /\ v # <<>>

Digits == {"0", "1", "2", "3", "4", "5", "6", "7", "8", "9"}

Letters ==
  {"a", "b", "c", "d", "e", "f", "g", "h", "i", "j", "k", "l", "m",
   "n", "o", "p", "q", "r", "s", "t", "u", "v", "w", "x", "y", "z",
   "A", "B", "C", "D", "E", "F", "G", "H", "I", "J", "K", "L", "M",
   "N", "O", "P", "Q", "R", "S", "T", "U", "V", "W", "X", "Y", "Z"}

\* \d, [A-Za-z], \s and \w of the re module
IsDigit(c) == c \in Digits
IsAlpha(c) == c \in Letters
IsSpace(c) == c \in {" ", "\n", "\t"}
IsWord(c) == IsDigit(c) \/ IsAlpha(c) \/ c = "_"

DigitVal ==
  ("0" :> 0) @@ ("1" :> 1) @@ ("2" :> 2) @@ ("3" :> 3) @@ ("4" :> 4) @@
  ("5" :> 5) @@ ("6" :> 6) @@ ("7" :> 7) @@ ("8" :> 8) @@ ("9" :> 9)

\* \b before position i of s (positions 1..Len(s)+1)
IsBoundary(s, i) ==
  LET prev == i > 1 /\ IsWord(s[i - 1])
      cur == i <= Len(s) /\ IsWord(s[i])
  IN prev # cur

AllDigits(s, i, j) == \A k \in i..j : k <= Len(s) /\ IsDigit(s[k])

\* ------------------------------------------------------------------------
\* re.match(r'^\d{12}$', aadhaar_number): $ also matches before a final \n
\* ------------------------------------------------------------------------
Match12Digits(s) ==
  /\ Len(s) \in {12, 13}
  /\ AllDigits(s, 1, 12)
  /\ Len(s) = 13 => s[13] = "\n"

\* the id check of both tiers: aadhaar_number and re.match(...)
IdAccepted(v) == Truthy(v) /\ Match12Digits(v)

\* ------------------------------------------------------------------------
\* f"XXXX XXXX {aadhaar_number[-4:]}"
\* ------------------------------------------------------------------------
MASK_PREFIX == <<"X", "X", "X", "X", " ", "X", "X", "X", "X", " ">>

\* off by one in the slice: the last five characters
Last4_OffByOne(s) == IF Len(s) <= 5 THEN s ELSE SubSeq(s, Len(s) - 4, Len(s))

Last4(s) == IF Len(s) <= 4 THEN s ELSE SubSeq(s, Len(s) - 3, Len(s))

Mask(s) == MASK_PREFIX \o Last4(s)

\* ------------------------------------------------------------------------
\* datetime.strptime and date arithmetic
\* ------------------------------------------------------------------------
ParseError == 0 - 1

RECURSIVE ToNum(_)
ToNum(s) == IF s = <<>> THEN 0
            ELSE 10 * ToNum(SubSeq(s, 1, Len(s) - 1)) + DigitVal[s[Len(s)]]

\* index of the first occurrence of character c in s at or after i, else 0
RECURSIVE Find(_, _, _)
Find(s, c, i) == IF i > Len(s) THEN 0
                 ELSE IF s[i] = c THEN i ELSE Find(s, c, i + 1)

IsLeap(y) == (y % 4 = 0 /\ y % 100 # 0) \/ y % 400 = 0

DaysInMonth(y, m) ==
  IF m = 2 THEN (IF IsLeap(y) THEN 29 ELSE 28)
  ELSE IF m \in {4, 6, 9, 11} THEN 30 ELSE 31

RECURSIVE DaysBeforeMonth(_, _)
DaysBeforeMonth(y, m) ==
  IF m = 1 THEN 0 ELSE DaysBeforeMonth(y, m - 1) + DaysInMonth(y, m - 1)

\* date.toordinal(): day 1 is 0001-01-01
Ordinal(y, m, d) ==
  LET p == y - 1
  IN 365 * p + (p \div 4) - (p \div 100) + (p \div 400)
       + DaysBeforeMonth(y, m) + d

\* %d : 1 or 2 digits, 1..31 ; %m : 1 or 2 digits, 1..12 ; %Y : 4 digits
\* (the dates searched in a text have two-digit day and month fields and
\* single separators)
FieldOk(f, maxLen) ==
  /\ Len(f) >= 1
  /\ Len(f) <= maxLen
  /\ \A k \in 1..Len(f) : IsDigit(f[k])

\* strptime(s, "%d<sep>%m<sep>%Y") (dayFirst) or "%Y<sep>%m<sep>%d":
\* the ordinal of the parsed date, or ParseError where strptime raises
\* ValueError
strptime(s, sep, dayFirst) ==
  LET p1 == Find(s, sep, 1)
      p2 == IF p1 = 0 THEN 0 ELSE Find(s, sep, p1 + 1)
  IN IF p1 = 0 \/ p2 = 0 THEN ParseError
     ELSE
       LET f1 == SubSeq(s, 1, p1 - 1)
           f2 == SubSeq(s, p1 + 1, p2 - 1)
           f3 == SubSeq(s, p2 + 1, Len(s))
           fy == IF dayFirst THEN f3 ELSE f1
           fd == IF dayFirst THEN f1 ELSE f3
       IN IF ~(FieldOk(fd, 2) /\ FieldOk(f2, 2) /\ FieldOk(fy, 4)
               /\ Len(fy) = 4)
          THEN ParseError
          ELSE
            LET y == ToNum(fy)
                m == ToNum(f2)
                d == ToNum(fd)
            IN IF y >= 1 /\ m >= 1 /\ m <= 12 /\ d >= 1
                  /\ d <= DaysInMonth(y, m)
               THEN Ordinal(y, m, d)
               ELSE ParseError

\* the structured-code tier parses with "%d-%m-%Y" only
ParseQrDob(dob) == strptime(dob, "-", TRUE)

\* the text tier selects the format by the separator found in dob
ParseOcrDob(dob) ==
  IF Find(dob, "/", 1) # 0 THEN strptime(dob, "/", TRUE)
  ELSE IF Find(dob, "-", 1) # 0
       THEN (IF Find(dob, "-", 1) = 3 THEN strptime(dob, "-", TRUE)
             ELSE strptime(dob, "-", FALSE))
       ELSE strptime(dob, " ", TRUE)

SecondsPerDay == 86400

\* (datetime.now() - dob_date).days : datetime subtraction builds
\* timedelta(days1 - days2, seconds1 - seconds2), normalized so that
\* 0 <= seconds < 86400; dob_date is midnight of the parsed date
DeltaDays(now, dobOrd) ==
  (now.day - dobOrd) + ((now.tod - 0) \div SecondsPerDay)

\* age = (datetime.now() - dob_date).days // 365
Age(now, dobOrd) == DeltaDays(now, dobOrd) \div 365

\* strict comparison instead of age >= 18
Is18_Strict(now, dobOrd) == Age(now, dobOrd) > 18

\* aadhaar_data["is_18_or_older"] = age >= 18
Is18(now, dobOrd) == Age(now, dobOrd) >= 18

\* ------------------------------------------------------------------------
\* The three re.search calls of the text tier
\* ------------------------------------------------------------------------
NoMatch == 0

\* \b\d{4}\s\d{4}\s\d{4}\b at position i
IdAt(s, i) ==
  /\ i + 13 <= Len(s)
  /\ IsBoundary(s, i)
  /\ AllDigits(s, i, i + 3)
  /\ IsSpace(s[i + 4])
  /\ AllDigits(s, i + 5, i + 8)
  /\ IsSpace(s[i + 9])
  /\ AllDigits(s, i + 10, i + 13)
  /\ IsBoundary(s, i + 14)

\* re.search: the leftmost position at or after i where the id pattern
\* matches, else NoMatch
RECURSIVE SearchId(_, _)
SearchId(s, i) ==
  IF i > Len(s) + 1 THEN NoMatch
  ELSE IF IdAt(s, i) THEN i ELSE SearchId(s, i + 1)

\* str.replace(" ", "")
RemoveSpaces(s) == SelectSeq(s, LAMBDA c : c # " ")

\* aadhaar_number_match.group().replace(" ", "") if aadhaar_number_match
\* else None
aadhaar_number_match(text) ==
  LET i == SearchId(text, 1)
  IN IF i = NoMatch THEN None
     ELSE RemoveSpaces(SubSeq(text, i, i + 13))

\* \d{2}[/-]\d{2}[/-]\d{4}
DateAlt1(s, i) ==
  /\ AllDigits(s, i, i + 1)
  /\ s[i + 2] \in {"/", "-"}
  /\ AllDigits(s, i + 3, i + 4)
  /\ s[i + 5] \in {"/", "-"}
  /\ AllDigits(s, i + 6, i + 9)

\* \d{2}\s\d{2}\s\d{4}
DateAlt2(s, i) ==
  /\ AllDigits(s, i, i + 1)
  /\ IsSpace(s[i + 2])
  /\ AllDigits(s, i + 3, i + 4)
  /\ IsSpace(s[i + 5])
  /\ AllDigits(s, i + 6, i + 9)

\* \d{4}-\d{2}-\d{2}
DateAlt3(s, i) ==
  /\ AllDigits(s, i, i + 3)
  /\ s[i + 4] = "-"
  /\ AllDigits(s, i + 5, i + 6)
  /\ s[i + 7] = "-"
  /\ AllDigits(s, i + 8, i + 9)

\* \b(?:alt1|alt2|alt3)\b at position i; every alternative is 10 long
DateAt(s, i) ==
  /\ i + 9 <= Len(s)
  /\ IsBoundary(s, i)
  /\ DateAlt1(s, i) \/ DateAlt2(s, i) \/ DateAlt3(s, i)
  /\ IsBoundary(s, i + 10)

\* re.search: the leftmost position at or after i where the date pattern
\* matches, else NoMatch
RECURSIVE SearchDate(_, _)
SearchDate(s, i) ==
  IF i > Len(s) + 1 THEN NoMatch
  ELSE IF DateAt(s, i) THEN i ELSE SearchDate(s, i + 1)

\* dob_match.group() if dob_match else None
dob_match(text) ==
  LET i == SearchDate(text, 1)
  IN IF i = NoMatch THEN None ELSE SubSeq(text, i, i + 9)

\* end (exclusive) of the longest run of [A-Za-z] / of \s starting at i
RECURSIVE WordEnd(_, _)
WordEnd(s, i) ==
  IF i <= Len(s) /\ IsAlpha(s[i]) THEN WordEnd(s, i + 1) ELSE i

RECURSIVE SpaceEnd(_, _)
SpaceEnd(s, i) ==
  IF i <= Len(s) /\ IsSpace(s[i]) THEN SpaceEnd(s, i + 1) ELSE i

\* \b([A-Za-z]{2,}\s+[A-Za-z]{2,}(?:\s+[A-Za-z]{2,})?)\b at position t:
\* the end (exclusive) of the group, or NoMatch.  The quantifiers are
\* greedy, and a shorter word or gap never lets the rest match, so the
\* only backtracking that succeeds is dropping the optional third word.
NameGroupEnd(s, t) ==
  IF ~IsBoundary(s, t) THEN NoMatch
  ELSE
    LET e1 == WordEnd(s, t)
        w1 == SpaceEnd(s, e1)
        e2 == WordEnd(s, w1)
        w2 == SpaceEnd(s, e2)
        e3 == WordEnd(s, w2)
    IN IF e1 - t < 2 \/ w1 = e1 \/ e2 - w1 < 2 THEN NoMatch
       ELSE IF w2 > e2 /\ e3 - w2 >= 2 /\ IsBoundary(s, e3) THEN e3
       ELSE IF IsBoundary(s, e2) THEN e2
       ELSE NoMatch

\* re.IGNORECASE comparison of s[i..] with a lower-case literal
LowerOf ==
  ("D" :> "d") @@ ("O" :> "o") @@ ("B" :> "b") @@ ("M" :> "m") @@
  ("A" :> "a") @@ ("L" :> "l") @@ ("E" :> "e")

Lower(c) == IF c \in DOMAIN LowerOf THEN LowerOf[c] ELSE c

StartsWithCI(s, i, lit) ==
  /\ i + Len(lit) - 1 <= Len(s)
  /\ \A k \in 1..Len(lit) : Lower(s[i + k - 1]) = lit[k]

\* end (exclusive) of (?:DOB|Male) at position i, or NoMatch
MarkerEnd(s, i) ==
  IF StartsWithCI(s, i, <<"d", "o", "b">>) THEN i + 3
  ELSE IF StartsWithCI(s, i, <<"m", "a", "l", "e">>) THEN i + 4
  ELSE NoMatch

\* largest t of lo..hi where the name group matches, else NoMatch: the
\* greedy .* before the group gives its characters back one at a time
RECURSIVE LastGroupStart(_, _, _)
LastGroupStart(s, lo, hi) ==
  IF hi < lo THEN NoMatch
  ELSE IF NameGroupEnd(s, hi) # NoMatch THEN hi
  ELSE LastGroupStart(s, lo, hi - 1)

\* first alternative, (?:DOB|Male).*\n.*\b(group 1)\b, at position i:
\* <<start, end>> of group 1, or <<>> when it does not match.  "." does
\* not match "\n", so the first .* runs to the end of the marker's line
\* and the group starts on the following line.
AnchoredAt(s, i) ==
  LET m == MarkerEnd(s, i)
  IN IF m = NoMatch THEN <<>>
     ELSE
       LET nl == Find(s, "\n", m)
       IN IF nl = 0 THEN <<>>
          ELSE
            LET nx == Find(s, "\n", nl + 1)
                q == IF nx = 0 THEN Len(s) + 1 ELSE nx
                t == LastGroupStart(s, nl + 1, q)
            IN IF t = NoMatch THEN <<>> ELSE <<t, NameGroupEnd(s, t)>>

\* second alternative, \b(group 2)\b, at position i
UnanchoredAt(s, i) ==
  IF NameGroupEnd(s, i) = NoMatch THEN <<>> ELSE <<i, NameGroupEnd(s, i)>>

\* the alternation at position i: the first alternative is tried first
NameAt(s, i) ==
  IF AnchoredAt(s, i) # <<>> THEN AnchoredAt(s, i) ELSE UnanchoredAt(s, i)

NameMatchesAt(s, i) == NameAt(s, i) # <<>>

\* re.search: the leftmost position at or after i where either alternative
\* matches, else NoMatch
RECURSIVE SearchName(_, _)
SearchName(s, i) ==
  IF i > Len(s) + 1 THEN NoMatch
  ELSE IF NameMatchesAt(s, i) THEN i ELSE SearchName(s, i + 1)

\* str.strip()
RECURSIVE LStrip(_)
LStrip(s) == IF s # <<>> /\ IsSpace(s[1]) THEN LStrip(Tail(s)) ELSE s

RECURSIVE RStrip(_)
RStrip(s) == IF s # <<>> /\ IsSpace(s[Len(s)])
             THEN RStrip(SubSeq(s, 1, Len(s) - 1)) ELSE s

Strip(s) == LStrip(RStrip(s))

\* name_match = re.search(..., text, re.IGNORECASE): the leftmost position
\* where either alternative matches;
\* name = (group(1) or group(2)).strip() if name_match else None
name_match(text) ==
  LET i == SearchName(text, 1)
  IN IF i = NoMatch THEN None
     ELSE LET g == NameAt(text, i)
          IN Strip(SubSeq(text, g[1], g[2] - 1))

\* ------------------------------------------------------------------------
\* Inputs: what the external engines may hand to the pipeline
\* ------------------------------------------------------------------------
ID_LINE == <<"1", "2", "3", "4", " ", "5", "6", "7", "8", " ", "9", "0", "1", "2">>
TAB_ID_LINE == <<"1", "2", "3", "4", "\t", "5", "6", "7", "8", "\t", "9", "0", "1", "2">>
DOB_LINE == <<"D", "O", "B", ":", " ", "1", "5", "/", "0", "6", "/", "2", "0", "0", "0">>
BAD_DATE_LINE == <<"3", "1", "-", "1", "3", "-", "2", "0", "0", "0">>
ISO_DATE_LINE == <<"2", "0", "0", "0", "-", "0", "6", "-", "1", "5">>
SPACE_DATE_LINE == <<"1", "5", " ", "0", "6", " ", "2", "0", "0", "0">>
NAME_LINE == <<"J", "a", "n", "e", " ", "D", "o", "e">>
HEADER_LINE == <<"G", "o", "v", "t", " ", "o", "f", " ", "I", "n", "d", "i", "a">>
SEX_LINE == <<"M", "a", "l", "e">>

\* the lines a recognized text is made of
Lines ==
  {ID_LINE, TAB_ID_LINE, DOB_LINE, BAD_DATE_LINE, ISO_DATE_LINE,
   SPACE_DATE_LINE, NAME_LINE, HEADER_LINE, SEX_LINE}

RECURSIVE JoinLines(_)
JoinLines(ls) ==
  IF ls = <<>> THEN <<>>
  ELSE IF Len(ls) = 1 THEN ls[1]
  ELSE ls[1] \o <<"\n">> \o JoinLines(Tail(ls))

\* every text of at most n lines, the empty text included
TextsUpTo(n) ==
  {JoinLines(ls) : ls \in UNION {[1..k -> Lines] : k \in 0..n}}

\* the texts extract_text_from_file may return
Texts == TextsUpTo(MaxLines)

QR_ID == <<"1", "1", "1", "1", "2", "2", "2", "2", "3", "3", "3", "3">>
QR_ID_SHORT == <<"1", "1", "1", "1", "2", "2", "2", "2", "3", "3", "3">>
QR_DOB == <<"1", "5", "-", "0", "6", "-", "2", "0", "0", "0">>
QR_DOB_BAD == <<"3", "1", "-", "1", "3", "-", "2", "0", "0", "0">>
QR_NAME == <<"J", "a", "n", "e", " ", "D", "o", "e">>

\* what qr_data.get(...) may yield for the three keys (None: key missing)
QrIds == {None, QR_ID, QR_ID_SHORT}
QrDobs == {None, QR_DOB, QR_DOB_BAD}
QrNames == {None, <<>>, QR_NAME}

\* qr_data: "decoded" is its truth value (False for None and for {})
NoQrData ==
  [decoded |-> FALSE, aadhaar_number |-> None, dob |-> None, name |-> None]

QrDicts ==
  [decoded : {TRUE}, aadhaar_number : QrIds, dob : QrDobs, name : QrNames]

\* raw payload of a scanned code; "" is a code whose data is empty
PAYLOAD == <<"7">>
ScanOutcomes == {"none", "throw", "empty", "code"}

\* content_type as <<type, subtype>>
PDF == <<"application", "pdf">>
JPEG == <<"image", "jpeg">>
PNG == <<"image", "png">>
GIF == <<"image", "gif">>
PLAIN == <<"text", "plain">>
ContentTypes == {PDF, JPEG, PNG, GIF, PLAIN}

\* content_type.startswith("image/")
IsImage(ct) == ct[1] = "image"

\* the list the route accepts
RouteAccepted == {PDF, JPEG, PNG}

\* the day of 15-06-2000, and the clock readings around its 6570th day
BirthDay == Ordinal(2000, 6, 15)

Nows ==
  {[day |-> BirthDay + 6569, tod |-> SecondsPerDay - 1],
   [day |-> BirthDay + 6570, tod |-> 0],
   [day |-> BirthDay + 6570, tod |-> SecondsPerDay \div 2]}

NotRead == [day |-> 0, tod |-> 0]

\* the clock does not run backwards between two readings
NotBefore(n, m) == n.day > m.day \/ (n.day = m.day /\ n.tod >= m.tod)

\* messages
UNSUPPORTED == "Unsupported file type"
NO_DETAILS == "Could not extract valid Aadhaar details"
PDF_ERROR == "pdf rasterizer failed"
IMAGE_ERROR == "cannot identify image file"
SCAN_ERROR == "code scanner failed"
DECODE_ERROR == "secure code malformed"
OCR_ERROR == "recognition engine failed"

\* the locals of the text tier before it has run
NoFields ==
  [text |-> None, aadhaar_number |-> None, dob |-> None,
   dob_date |-> ParseError, name |-> None]

\* ------------------------------------------------------------------------
\* State
\* ------------------------------------------------------------------------
VARIABLES
  pc,             \* position in verify_aadhaar
  content_type,   \* argument
  images,         \* number of page images the payload yields
  page,           \* next page of the scan loop
  qr_code_string, \* result of the scan loop
  qr_data,        \* decoded dictionary
  ocr,            \* recognized text and the locals extracted from it
  aadhaar_data,   \* the record being built and returned
  now,            \* last reading of datetime.now()
  scanned,        \* history: <<page, outcome>> of every extract_qr_code call
  ocr_calls,      \* history: calls of extract_text_from_file
  thrown,         \* history: exceptions thrown, [step, msg]
  returned_by     \* history: the return statement that ended the call

vars ==
  <<pc, content_type, images, page, qr_code_string, qr_data, ocr,
    aadhaar_data, now, scanned, ocr_calls, thrown, returned_by>>

\* aadhaar_data as constructed at the top of verify_aadhaar
InitialData ==
  [aadhaar_number |-> None, dob |-> None, name |-> None,
   is_18_or_older |-> FALSE, valid |-> FALSE, error |-> None]

Init ==
  /\ pc = "start"
  /\ content_type \in ContentTypes
  /\ images = 0
  /\ page = 1
  /\ qr_code_string = None
  /\ qr_data = NoQrData
  /\ ocr = NoFields
  /\ aadhaar_data = InitialData
  /\ now = NotRead
  /\ scanned = <<>>
  /\ ocr_calls = 0
  /\ thrown = {}
  /\ returned_by = "none"

\* ------------------------------------------------------------------------
\* except Exception as e: error = str(e); valid = False; return
\* ------------------------------------------------------------------------
\* a handler that reports the message without forcing valid to false
Handled_KeepsValid(data, msg) == [data EXCEPT !.error = <<msg>>]

Handled(data, msg) == [data EXCEPT !.error = <<msg>>, !.valid = FALSE]

\* an exception raised at `step` that reaches the outer handler
Raise(step, msg) ==
  /\ aadhaar_data' = Handled(aadhaar_data, msg)
  /\ thrown' = thrown \cup {[step |-> step, msg |-> msg]}
  /\ returned_by' = "except"
  /\ pc' = "done"

\* ------------------------------------------------------------------------
\* Page materialization: the if / elif / else on content_type
\* ------------------------------------------------------------------------
PdfPages == 0..MaxPages

Materialize ==
  /\ pc = "start"
  /\ IF content_type = PDF
     THEN \/ /\ Raise("materialize", PDF_ERROR)
             /\ UNCHANGED images
          \/ \E n \in PdfPages :
               /\ images' = n
               /\ pc' = IF n = 0 THEN "ocr" ELSE "scan"
               /\ UNCHANGED <<aadhaar_data, thrown, returned_by>>
     ELSE IF IsImage(content_type)
     THEN \/ /\ Raise("materialize", IMAGE_ERROR)
             /\ UNCHANGED images
          \/ /\ images' = 1
             /\ pc' = "scan"
             /\ UNCHANGED <<aadhaar_data, thrown, returned_by>>
     ELSE /\ Raise("materialize", UNSUPPORTED)
          /\ UNCHANGED images
  /\ UNCHANGED <<content_type, page, qr_code_string, qr_data, ocr, now,
                 scanned, ocr_calls>>

\* ------------------------------------------------------------------------
\* extract_qr_code on one page, and the loop around it
\* ------------------------------------------------------------------------
\* the value extract_qr_code returns for an outcome of the scan engine
extract_qr_code(outcome) ==
  IF outcome = "code" THEN PAYLOAD
  ELSE IF outcome = "empty" THEN <<>>
  ELSE None

\* a loop without the break
LoopEnds_NoBreak(result, p, n) == p >= n

\* for img in images: ...; if qr_code_string: break
LoopEnds(result, p, n) == Truthy(result) \/ p >= n

ScanPage ==
  /\ pc = "scan"
  /\ page <= images
  /\ \E outcome \in ScanOutcomes :
       LET result == extract_qr_code(outcome)
       IN /\ qr_code_string' = result
          /\ scanned' = Append(scanned, <<page, outcome>>)
          /\ thrown' = IF outcome = "throw"
                       THEN thrown \cup {[step |-> "scan", msg |-> SCAN_ERROR]}
                       ELSE thrown
          /\ IF LoopEnds(result, page, images)
             THEN /\ pc' = IF Truthy(result) THEN "decode" ELSE "ocr"
                  /\ UNCHANGED page
             ELSE /\ pc' = "scan"
                  /\ page' = page + 1
  /\ UNCHANGED <<content_type, images, qr_data, ocr, aadhaar_data, now,
                 ocr_calls, returned_by>>

\* ------------------------------------------------------------------------
\* Structured-code tier: decode the payload and fill the record
\* ------------------------------------------------------------------------
\* if aadhaar_number and re.match(...): store it and set valid (both tiers)
StoreId(data, id) ==
  IF IdAccepted(id)
  THEN [data EXCEPT !.aadhaar_number = id, !.valid = TRUE]
  ELSE data

\* if dob: try: strptime; dob, is_18_or_older = ... except ValueError: reset
StoreDob(data, dob, ord, n) ==
  IF ~Truthy(dob) THEN data
  ELSE IF ord # ParseError
       THEN [data EXCEPT !.dob = dob, !.is_18_or_older = Is18(n, ord)]
       ELSE [data EXCEPT !.dob = None, !.is_18_or_older = FALSE]

\* the record after the field assignments of the structured-code tier
QrTier(data, d, n) ==
  LET d1 == StoreId(data, d.aadhaar_number)
      d2 == StoreDob(d1, d.dob, ParseQrDob(d.dob), n)
  IN [d2 EXCEPT !.name = d.name]

\* a short-circuit that also asks for the age flag
ShortCircuit_AdultOnly(data) ==
  data.valid /\ Truthy(data.dob) /\ Truthy(data.name) /\ data.is_18_or_older

\* if aadhaar_data["valid"] and aadhaar_data["dob"] and aadhaar_data["name"]
ShortCircuit(data) ==
  data.valid /\ Truthy(data.dob) /\ Truthy(data.name)

MaskField(data) == [data EXCEPT !.aadhaar_number = Mask(@)]

\* datetime.now() is read only after a successful strptime
ReadsClock(dob, ord) == Truthy(dob) /\ ord # ParseError

DecodeQr ==
  /\ pc = "decode"
  /\ \/ \* AadhaarSecureQr or decoded_dict raises: caught, qr_data = None
        /\ qr_data' = NoQrData
        /\ thrown' = thrown \cup {[step |-> "decode", msg |-> DECODE_ERROR]}
        /\ pc' = "ocr"
        /\ UNCHANGED <<aadhaar_data, now, returned_by>>
     \/ \* decoded_dict returns an empty dictionary
        /\ qr_data' = NoQrData
        /\ pc' = "ocr"
        /\ UNCHANGED <<aadhaar_data, now, thrown, returned_by>>
     \/ \E d \in QrDicts, n \in Nows :
          LET reads == ReadsClock(d.dob, ParseQrDob(d.dob))
              data == QrTier(aadhaar_data, d, n)
          IN /\ NotBefore(n, now)
             /\ qr_data' = d
             /\ now' = IF reads THEN n ELSE now
             /\ IF ShortCircuit(data)
                THEN /\ aadhaar_data' = MaskField(data)
                     /\ returned_by' = "short_circuit"
                     /\ pc' = "done"
                ELSE /\ aadhaar_data' = data
                     /\ pc' = "ocr"
                     /\ UNCHANGED returned_by
             /\ UNCHANGED thrown
  /\ UNCHANGED <<content_type, images, page, qr_code_string, ocr, scanned,
                 ocr_calls>>

\* ------------------------------------------------------------------------
\* Text tier: extract_text_from_file, field extraction, error, masking
\* ------------------------------------------------------------------------
\* the locals of the text tier for a recognized text: the three searches
\* and the date parse (ParseError where strptime raises ValueError)
FieldsOf(t) ==
  LET dob == dob_match(t)
  IN [text |-> t,
      aadhaar_number |-> aadhaar_number_match(t),
      dob |-> dob,
      dob_date |-> IF Truthy(dob) THEN ParseOcrDob(dob) ELSE ParseError,
      name |-> name_match(t)]

\* tabulated once for the texts of the pipeline specification
OcrFields == {FieldsOf(t) : t \in Texts}

\* an error decided by the text tier's own id instead of the valid flag
TextTier_ErrorOnLocalId(data, f, n) ==
  LET d1 == StoreId(data, f.aadhaar_number)
      d2 == StoreDob(d1, f.dob, f.dob_date, n)
      d3 == [d2 EXCEPT !.name = f.name]
      d4 == IF ~IdAccepted(f.aadhaar_number)
            THEN [d3 EXCEPT !.error = <<NO_DETAILS>>] ELSE d3
  IN IF Truthy(d4.aadhaar_number)
     THEN [d4 EXCEPT !.aadhaar_number = Mask(@)] ELSE d4

\* the record after lines 138-166, given the locals f
TextTier(data, f, n) ==
  LET d1 == StoreId(data, f.aadhaar_number)
      d2 == StoreDob(d1, f.dob, f.dob_date, n)
      d3 == [d2 EXCEPT !.name = f.name]
      d4 == IF ~d3.valid THEN [d3 EXCEPT !.error = <<NO_DETAILS>>] ELSE d3
  IN IF Truthy(d4.aadhaar_number) THEN MaskField(d4) ELSE d4

\* extract_text_from_file: the messages it may raise with
OcrRaises(ct, n) ==
  IF ct = PDF
  THEN {PDF_ERROR} \cup (IF n = 0 THEN {} ELSE {OCR_ERROR})
  ELSE IF IsImage(ct) THEN {IMAGE_ERROR, OCR_ERROR}
  ELSE {UNSUPPORTED}

\* extract_text_from_file: whether it may return text t (a PDF without
\* pages yields the empty text; the concatenated page texts otherwise)
OcrReturns(ct, n, t) ==
  IF ct = PDF THEN (n = 0 => t = <<>>)
  ELSE IsImage(ct)

Fallback ==
  /\ pc = "ocr"
  /\ ocr_calls' = ocr_calls + 1
  /\ \/ \E m \in OcrRaises(content_type, images) :
          /\ Raise("ocr", m)
          /\ UNCHANGED <<ocr, now>>
     \/ \E f \in OcrFields, n \in Nows :
          /\ OcrReturns(content_type, images, f.text)
          /\ NotBefore(n, now)
          /\ ocr' = f
          /\ now' = IF ReadsClock(f.dob, f.dob_date) THEN n ELSE now
          /\ aadhaar_data' = TextTier(aadhaar_data, f, n)
          /\ returned_by' = "fallback"
          /\ pc' = "done"
          /\ UNCHANGED thrown
  /\ UNCHANGED <<content_type, images, page, qr_code_string, qr_data,
                 scanned>>

Next == Materialize \/ ScanPage \/ DecodeQr \/ Fallback

Spec == Init /\ [][Next]_vars

\* ------------------------------------------------------------------------
\* Name extraction alone, over longer texts
\* ------------------------------------------------------------------------
NameTexts == TextsUpTo(MaxNameLines)

InitName ==
  /\ pc = "name"
  /\ content_type = JPEG
  /\ images = 1
  /\ page = 1
  /\ qr_code_string = None
  /\ qr_data = NoQrData
  /\ ocr \in {[NoFields EXCEPT !.text = t] : t \in NameTexts}
  /\ aadhaar_data = InitialData
  /\ now = NotRead
  /\ scanned = <<>>
  /\ ocr_calls = 1
  /\ thrown = {}
  /\ returned_by = "none"

\* name_match and aadhaar_data["name"] = name
ExtractName ==
  /\ pc = "name"
  /\ aadhaar_data' = [aadhaar_data EXCEPT !.name = name_match(ocr.text)]
  /\ pc' = "done"
  /\ UNCHANGED <<content_type, images, page, qr_code_string, qr_data, ocr,
                 now, scanned, ocr_calls, thrown, returned_by>>

NextName == ExtractName

SpecName == InitName /\ [][NextName]_vars

\* ------------------------------------------------------------------------
\* Properties
\* ------------------------------------------------------------------------
Done == pc = "done"

\* exactly twelve decimal digits
Is12Digits(v) == Len(v) = 12 /\ \A k \in 1..12 : IsDigit(v[k])

\* "XXXX XXXX " followed by four digits
IsMasked(v) ==
  /\ Len(v) = 14
  /\ SubSeq(v, 1, 10) = MASK_PREFIX
  /\ \A k \in 11..14 : IsDigit(v[k])

\* "XXXX XXXX " followed by the last four digits of the 12-digit id D
MaskedFormOf(D) == MASK_PREFIX \o SubSeq(D, 9, 12)

\* the exceptions that are caught where they occur
Absorbed == {"scan", "decode"}

\* C1: in every returned record, on any path, aadhaar_number is null or
\* "XXXX XXXX " followed by four digits; the unmasked digits of an
\* extracted id are never in a returned record.
C1_ReturnedIdMasked ==
  Done => \/ aadhaar_data.aadhaar_number = None
          \/ IsMasked(aadhaar_data.aadhaar_number)

\* C2: when the structured-code tier decoded a payload that is incomplete
\* or invalid, the call returns the record a call with the same recognized
\* text and no code returns: nothing the structured-code tier stored
\* survives.
C2_FallbackAsIfNoCode ==
  (Done /\ returned_by = "fallback" /\ qr_data.decoded)
    => aadhaar_data = TextTier(InitialData, ocr, now)

\* the structured-code tier yields a valid 12-digit id, a date of birth
\* that parses and a non-empty name
QrComplete ==
  /\ qr_data.decoded
  /\ Is12Digits(qr_data.aadhaar_number)
  /\ Truthy(qr_data.dob)
  /\ ParseQrDob(qr_data.dob) # ParseError
  /\ Truthy(qr_data.name)

\* C3: if the structured-code tier yields a valid 12-digit id, a date of
\* birth that parses and a non-empty name, the call has returned at once
\* with the masked id and error = null, and extract_text_from_file was
\* never invoked.
C3_ShortCircuit ==
  QrComplete =>
    /\ Done
    /\ returned_by = "short_circuit"
    /\ aadhaar_data.aadhaar_number = MaskedFormOf(qr_data.aadhaar_number)
    /\ aadhaar_data.valid
    /\ aadhaar_data.error = None
    /\ ocr_calls = 0

C3_Witness == QrComplete /\ Done /\ Len(scanned) = 2

\* C4: for every content kind outside {application/pdf, image/jpeg,
\* image/png} the call fails with the unsupported-kind failure before any
\* code scan or text recognition.
C4_UnlistedKindRejected ==
  content_type \notin RouteAccepted =>
    /\ scanned = <<>>
    /\ ocr_calls = 0
    /\ Done => aadhaar_data.error = <<UNSUPPORTED>>

\* C5 as stated: every exception thrown at any step of the call, the code
\* scan and the secure-code decode included, has its message in error and
\* forces valid to false in the returned record.
C5_EveryExceptionReported ==
  (Done /\ thrown # {}) =>
    /\ \E e \in thrown : aadhaar_data.error = <<e.msg>>
    /\ ~aadhaar_data.valid

\* C5 amended: an exception thrown outside the code scan and the
\* secure-code decode ends the call through the outer handler with its
\* message in error and valid false; an exception of the code scan or of
\* the decode alone never ends the call that way; and a call that has not
\* returned can always take its next step.
C5_OuterExceptionReported ==
  /\ Done =>
       /\ \A e \in thrown :
            e.step \notin Absorbed =>
              /\ returned_by = "except"
              /\ aadhaar_data.error = <<e.msg>>
              /\ ~aadhaar_data.valid
       /\ returned_by = "except" =>
            \E e \in thrown : e.step \notin Absorbed
  /\ ~Done => ENABLED Next

C5_Witness ==
  /\ Done
  /\ returned_by = "except"
  /\ qr_data.decoded
  /\ Is12Digits(qr_data.aadhaar_number)
  /\ \E e \in thrown : e.step = "ocr"

\* C6: in every returned record error is non-null iff valid is false, and
\* when an exception ended the call error is that exception's message, not
\* the fixed "could not extract" message.
C6_ErrorIffInvalid ==
  Done =>
    /\ (aadhaar_data.error # None) <=> ~aadhaar_data.valid
    /\ returned_by = "except" =>
         /\ \E e \in thrown :
              e.step \notin Absorbed /\ aadhaar_data.error = <<e.msg>>
         /\ aadhaar_data.error # <<NO_DETAILS>>

C6_Witness ==
  /\ Done
  /\ returned_by = "fallback"
  /\ qr_data.decoded
  /\ Is12Digits(qr_data.aadhaar_number)
  /\ ~Is12Digits(ocr.aadhaar_number)
  /\ aadhaar_data.valid
  /\ aadhaar_data.error = None

\* the valid 12-digit ids extracted by either tier during the call
ExtractedIds ==
  {v \in {qr_data.aadhaar_number, ocr.aadhaar_number} : Is12Digits(v)}

\* C7 as stated: on every return without exception, for any valid 12-digit
\* id D extracted by either tier, the visible id is "XXXX XXXX " followed
\* by the last 4 digits of D, and valid is true.
C7_AnyExtractedIdShown ==
  (Done /\ returned_by # "except") =>
    \A D \in ExtractedIds :
      aadhaar_data.aadhaar_number = MaskedFormOf(D) /\ aadhaar_data.valid

\* the id that reaches the record: the text tier's when it extracted a
\* valid one, the structured-code tier's otherwise
ShownId ==
  IF Is12Digits(ocr.aadhaar_number) THEN ocr.aadhaar_number
  ELSE qr_data.aadhaar_number

\* C7 amended: on every return without exception where some tier extracted
\* a valid 12-digit id, valid is true and the visible id is "XXXX XXXX "
\* followed by the last 4 digits of the text tier's id when that tier
\* extracted a valid one, of the structured-code tier's id otherwise.
C7_LastExtractedIdShown ==
  (Done /\ returned_by # "except" /\ ExtractedIds # {}) =>
    /\ aadhaar_data.aadhaar_number = MaskedFormOf(ShownId)
    /\ aadhaar_data.valid

C7_Witness ==
  /\ Done
  /\ returned_by = "fallback"
  /\ Cardinality(ExtractedIds) = 2

\* whole days from the stored date of birth to the clock reading
DaysSinceDob == now.day - ParseOcrDob(aadhaar_data.dob)

\* C8: is_18_or_older is true iff the whole days between the call time and
\* the parsed date of birth, floor-divided by 365, are at least 18: true at
\* 6570 days, false at 6569 days, in both tiers.
C8_AgeBoundary ==
  (Done /\ aadhaar_data.dob # None) =>
    /\ aadhaar_data.is_18_or_older <=> (DaysSinceDob \div 365 >= 18)
    /\ DaysSinceDob = 6570 => aadhaar_data.is_18_or_older
    /\ DaysSinceDob = 6569 => ~aadhaar_data.is_18_or_older

C8_Witness ==
  /\ Done
  /\ returned_by = "fallback"
  /\ aadhaar_data.dob # None
  /\ DaysSinceDob = 6570
  /\ now.tod > 0
  /\ aadhaar_data.is_18_or_older

\* pages are scanned in page order, and no page is scanned after one that
\* yielded a payload
ScannedInOrder ==
  /\ \A k \in 1..Len(scanned) : scanned[k][1] = k
  /\ \A k \in 1..(Len(scanned) - 1) : scanned[k][2] # "code"
  /\ Len(scanned) <= images
  /\ pc = "scan" => page = Len(scanned) + 1

NoCodeOnAnyPage ==
  /\ Len(scanned) = images
  /\ \A k \in 1..Len(scanned) : scanned[k][2] # "code"

\* C9 as stated: pages are scanned in order, a page without a code (or
\* whose scan throws) is followed by the next page, scanning stops at the
\* first payload, and text recognition starts only after every page has
\* been scanned and has yielded no code.
C9_FallbackOnlyWithoutCode ==
  /\ ScannedInOrder
  /\ (content_type = PDF /\ images >= 2 /\ ocr_calls > 0) => NoCodeOnAnyPage

\* C9 amended: as above, except that text recognition starts either after
\* every page has been scanned without a code, or after the first page
\* with a payload when that payload did not decode to a complete field
\* set (no page after it is scanned).
C9_FallbackAfterScan ==
  /\ ScannedInOrder
  /\ ocr_calls > 0 =>
       \/ NoCodeOnAnyPage
       \/ /\ Len(scanned) >= 1
          /\ scanned[Len(scanned)][2] = "code"
          /\ ~QrComplete

C9_Witness ==
  /\ content_type = PDF
  /\ images = 2
  /\ Len(scanned) = 2
  /\ scanned[1][2] = "throw"
  /\ scanned[2][2] = "code"
  /\ ocr_calls > 0

\* index of the last "\n" of t before position a, 0 when there is none
RECURSIVE PrevNewline(_, _)
PrevNewline(t, a) ==
  IF a <= 1 THEN 0
  ELSE IF t[a - 1] = "\n" THEN a - 1 ELSE PrevNewline(t, a - 1)

\* s is two or three words of at least two letters, separated by blanks
IsNameSequence(s) ==
  LET e1 == WordEnd(s, 1)
      w1 == SpaceEnd(s, e1)
      e2 == WordEnd(s, w1)
      w2 == SpaceEnd(s, e2)
      e3 == WordEnd(s, w2)
  IN /\ e1 - 1 >= 2
     /\ w1 > e1
     /\ e2 - w1 >= 2
     /\ \/ e2 = Len(s) + 1
        \/ w2 > e2 /\ e3 - w2 >= 2 /\ e3 = Len(s) + 1

\* positions a..b lie on one line of t, and the line before it contains a
\* marker token
OnLineAfterMarker(t, a, b) ==
  LET p == PrevNewline(t, a)
  IN /\ \A k \in a..b : t[k] # "\n"
     /\ p > 0
     /\ \E i \in (PrevNewline(t, p) + 1)..(p - 1) : MarkerEnd(t, i) # NoMatch

\* the 2-3 word alphabetic sequences on a line that immediately follows a
\* line containing a marker token
AnchoredCandidates(t) ==
  {SubSeq(t, a, b) : <<a, b>> \in
     {ab \in (1..Len(t)) \X (1..Len(t)) :
        /\ ab[1] < ab[2]
        /\ IsAlpha(t[ab[1]])
        /\ IsBoundary(t, ab[1])
        /\ IsBoundary(t, ab[2] + 1)
        /\ OnLineAfterMarker(t, ab[1], ab[2])
        /\ IsNameSequence(SubSeq(t, ab[1], ab[2]))}}

\* C10: whenever the text has a 2-3 word alphabetic sequence on the line
\* immediately following a line with a marker token (DOB or Male), the
\* extracted name is such a sequence, even when another 2-3 word sequence
\* occurs earlier in the text.
C10_AnchoredNamePreferred ==
  (Done /\ AnchoredCandidates(ocr.text) # {}) =>
    aadhaar_data.name \in AnchoredCandidates(ocr.text)

====
